---- MODULE Spec2Model ----
(***************************************************************************)
(* Model of the two cloud inventory scripts plugins/inventory/nova.py and  *)
(* plugins/inventory/rax.py: the address classifier get_addresses, the     *)
(* command line dispatch, discovery mode (--list) and detail mode (--host).*)
(* The state starts after the module-level client object is constructed    *)
(* (no request has been made yet); one run of a script is one behaviour.   *)
(***************************************************************************)
EXTENDS Integers, Sequences, FiniteSets, TLC

VARIABLES
    variant,    \* which script runs: "nova" (nova.py) or "rax" (rax.py)
    argv,       \* sys.argv, argv[1] is the script name (Python's sys.argv[0])
    pc,         \* position of the run
    servers,    \* the list returned by client.servers.list()
    fetches,    \* number of calls of client.servers.list() so far
    idx,        \* index of the next server record the for loop takes
    groups,     \* the dict `groups` of the --list branch
    origin,     \* history: for every entry of groups, the index of its record
    results,    \* the dict `results` of the --host branch
    stdout,     \* what was printed, one element per print call
    exitcode,   \* <<status>> once the process has ended, Running before
    addrIn,     \* argument of a stand-alone call of get_addresses
    addrOut     \* its return value

vars == <<variant, argv, pc, servers, fetches, idx, groups, origin, results,
          stdout, exitcode, addrIn, addrOut>>

(***************************************************************************)
(* Bounds of the model.                                                    *)
(***************************************************************************)
MaxServers == 2
MaxAddr == 3

\* exitcode while the process has not ended
Running == <<>>
EmptyDict == <<>>

(***************************************************************************)
(* Strings.                                                                *)
(***************************************************************************)
\* str.join: the elements separated by sep, "" for the empty list
RECURSIVE join(_, _)
join(sep, list) ==
    IF list = <<>> THEN ""
    ELSE IF Len(list) = 1 THEN list[1]
    ELSE list[1] \o sep \o join(sep, Tail(list))

\* '%s: %s' % (instance.name, addr)
format_instance(name, addr) == name \o ": " \o addr

\* every string s for which the Python test  s in 'manager'  is true
SubstringsOfManager ==
    {"", "m", "a", "n", "g", "e", "r",
     "ma", "an", "na", "ag", "ge", "er",
     "man", "ana", "nag", "age", "ger",
     "mana", "anag", "nage", "ager",
     "manag", "anage", "nager",
     "manage", "anager", "manager"}

\* str.lower on the attribute names of the model
lower(key) ==
    CASE key = "accessIPv4" -> "accessipv4"
      [] key = "hostId" -> "hostid"
      [] OTHER -> key

(***************************************************************************)
(* get_addresses                                                           *)
(***************************************************************************)
addr_of(entries) == [i \in 1..Len(entries) |-> entries[i]["addr"]]

is_fixed(x) == "OS-EXT-IPS:type" \in DOMAIN x /\ x["OS-EXT-IPS:type"] = "fixed"
is_floating(x) == "OS-EXT-IPS:type" \in DOMAIN x /\ x["OS-EXT-IPS:type"] = "floating"
is_legacy(x) == "version" \in DOMAIN x /\ x["version"] = 4

\* get_addresses with legacy taken only from the entries that carry no type
get_addresses_untyped_legacy(addr) ==
    <<addr_of(SelectSeq(addr, is_fixed)),
      addr_of(SelectSeq(addr, is_floating)),
      addr_of(SelectSeq(addr, LAMBDA x : is_legacy(x) /\ ~is_fixed(x) /\ ~is_floating(x)))>>

get_addresses(addr) ==
    <<addr_of(SelectSeq(addr, is_fixed)),
      addr_of(SelectSeq(addr, is_floating)),
      addr_of(SelectSeq(addr, is_legacy))>>

(***************************************************************************)
(* Per-record pieces of the two branches.                                  *)
(***************************************************************************)
\* getattr(instance, 'addresses').itervalues().next(): the address list of
\* the first enumerated network; raises StopIteration when there is none
has_network(instance) == instance.addresses # <<>>
first_network(instance) == instance.addresses[1].entries

\* group_of with the metadata entry ignored
group_of_always_undefined(instance) == "undefined"

\* instance.metadata.get('group', 'undefined')
group_of(instance) ==
    IF "group" \in DOMAIN instance.metadata
    THEN instance.metadata["group"] ELSE "undefined"

\* a Python value is false in `if addr:` / `not instance.accessIPv4`
falsy(s) == s = ""

nova_list_ips(instance) ==
    LET a == get_addresses(first_network(instance))
    IN <<instance.accessIPv4, join(", ", a[1]), join(", ", a[2]), join(", ", a[3])>>

nova_host_ips(instance) ==
    LET a == get_addresses(first_network(instance))
    IN <<instance.accessIPv4, join(", ", a[1]), join(", ", a[2]), join(", ", a[3])>>

\* rax_list_ips with the legacy list never a candidate
rax_list_ips_no_legacy(instance) ==
    LET a == get_addresses(first_network(instance))
    IN <<instance.accessIPv4, join(", ", a[1]), join(", ", a[2])>>

rax_list_ips(instance) ==
    LET a == get_addresses(first_network(instance))
        ips == <<instance.accessIPv4, join(", ", a[1]), join(", ", a[2])>>
    IN IF falsy(instance.accessIPv4) THEN Append(ips, join(", ", a[3])) ELSE ips

\* rax_host_ips with the legacy list always a candidate, as in nova.py
rax_host_ips_always_legacy(instance) ==
    LET a == get_addresses(first_network(instance))
    IN <<instance.accessIPv4, join(", ", a[1]), join(", ", a[2]), join(", ", a[3])>>

rax_host_ips(instance) ==
    LET a == get_addresses(first_network(instance))
        ips == <<instance.accessIPv4, join(", ", a[1]), join(", ", a[2])>>
    IN IF falsy(instance.accessIPv4) THEN Append(ips, join(", ", a[3])) ELSE ips

list_ips(v, instance) ==
    IF v = "nova" THEN nova_list_ips(instance) ELSE rax_list_ips(instance)
host_ips(v, instance) ==
    IF v = "nova" THEN nova_host_ips(instance) ELSE rax_host_ips(instance)

Range(s) == {s[i] : i \in 1..Len(s)}

\* list_entries without the test `if addr`
list_entries_unfiltered(v, instance) ==
    LET ips == list_ips(v, instance)
    IN [i \in 1..Len(ips) |-> format_instance(instance.name, ips[i])]

\* for addr in ips: if addr: ... append('%s: %s' % (instance.name, addr))
list_entries(v, instance) ==
    LET kept == SelectSeq(list_ips(v, instance), LAMBDA a : ~falsy(a))
    IN [i \in 1..Len(kept) |-> format_instance(instance.name, kept[i])]

\* one iteration of the for loop of the --list branch on dict g
list_step(v, g, instance) ==
    LET group == group_of(instance)
        g1 == IF group \notin DOMAIN g THEN g @@ (group :> <<>>) ELSE g
    IN [g1 EXCEPT ![group] = @ \o list_entries(v, instance)]

\* the history kept beside groups: g2 is g after one iteration on record i,
\* and every entry the iteration appended is recorded as coming from i
origin_track(o, g2, i) ==
    [k \in DOMAIN g2 |->
        LET old == IF k \in DOMAIN o THEN o[k] ELSE <<>>
        IN old \o [j \in 1..(Len(g2[k]) - Len(old)) |-> i]]

prefix(v) == IF v = "nova" THEN "os" ELSE "rax"

\* [key for key in vars(instance) if key not in 'manager']
host_keys(instance) == {key \in DOMAIN instance : key \notin SubstringsOfManager}

\* 'os_%s' % key.lower()  /  'rax_%s' % key.lower()
sanitized_key(v, key) == prefix(v) \o "_" \o lower(key)

\* sys.argv[2] in ips
host_match(v, query, instance) == query \in Range(host_ips(v, instance))

\* one iteration of the for loop of the --host branch on dict r; lower is
\* one-to-one on the attribute names of the model, so the order in which
\* vars(instance) enumerates the keys does not show in the result
host_step(v, query, r, instance) ==
    IF host_match(v, query, instance)
    THEN LET new == {sanitized_key(v, key) : key \in host_keys(instance)}
         IN [k \in DOMAIN r \cup new |->
               IF k \in new
               THEN instance[CHOOSE key \in host_keys(instance) : sanitized_key(v, key) = k]
               ELSE r[k]]
    ELSE r

\* the whole for loop of the --list branch over the first n records
RECURSIVE list_run(_, _, _)
list_run(v, srv, n) ==
    IF n = 0 THEN EmptyDict ELSE list_step(v, list_run(v, srv, n - 1), srv[n])

\* the whole for loop of the --host branch over the first n records
RECURSIVE host_run(_, _, _, _)
host_run(v, query, srv, n) ==
    IF n = 0 THEN EmptyDict ELSE host_step(v, query, host_run(v, query, srv, n - 1), srv[n])

(***************************************************************************)
(* Inputs.                                                                 *)
(***************************************************************************)
Variants == {"nova", "rax"}
Addr1 == "10.0.0.1"
Addr2 == "10.0.0.2"
Addr3 == "10.0.0.3"

\* an AddressEntry: addr, and the optional fields it carries
Type(t) == "OS-EXT-IPS:type" :> t
Version(n) == "version" :> n
Entry(a, optional) == ("addr" :> a) @@ optional

Network(name, entries) == [net |-> name, entries |-> entries]

\* the addresses mappings of the model, as the networks in enumeration
\* order: no network; a network without entries; two fixed entries, the first
\* also of version 4; an untyped version 4 entry, followed by a second network
AddressesPool ==
    { <<>>,
      <<Network("private", <<>>)>>,
      <<Network("private", <<Entry(Addr2, Type("fixed") @@ Version(4)), Entry(Addr3, Type("fixed"))>>)>>,
      <<Network("public", <<Entry(Addr1, Version(4))>>),
        Network("private", <<Entry(Addr2, Type("fixed"))>>)>> }

MetadataPool == {EmptyDict, [group |-> "web"]}
Names == {"a", "b"}
AccessPool == {"", Addr1}

\* a server record is the mapping vars(instance) of its attributes: the
\* manager handle, the fields the scripts read, and two fields the API
\* returned besides, hostId (a name that lower() changes) and age (a name
\* that is a substring of 'manager'); accessIPv4 is a str, empty when unset
Server(n, a, m, nets) ==
    [manager |-> "ServerManager", name |-> n, accessIPv4 |-> a, metadata |-> m,
     addresses |-> nets, hostId |-> "h1", age |-> "7"]

ServerPool ==
    {Server(n, a, m, nets) : n \in Names, a \in AccessPool, m \in MetadataPool,
                             nets \in AddressesPool}

RECURSIVE SeqsUpTo(_, _)
SeqsUpTo(S, n) ==
    IF n = 0 THEN {<<>>}
    ELSE LET shorter == SeqsUpTo(S, n - 1)
         IN shorter \cup {Append(s, x) : s \in {t \in shorter : Len(t) = n - 1}, x \in S}

ServerLists == SeqsUpTo(ServerPool, MaxServers)

Queries == {"", Addr1, Addr2, Addr3, "10.0.0.2, 10.0.0.3"}
Script == "inventory.py"
Argvs ==
    {<<Script>>, <<Script, "--list">>, <<Script, "--host">>,
     <<Script, "--list", "extra-arg">>, <<Script, "--bogus">>,
     <<Script, "--list", "--host", Addr1>>}
    \cup {<<Script, "--host", q>> : q \in Queries}

Usage == "usage: --list  ..OR.. --host <hostname>"

(***************************************************************************)
(* The run of a script.                                                    *)
(***************************************************************************)
Init ==
    /\ variant \in Variants
    /\ argv \in Argvs
    /\ pc = "invoked"
    /\ servers = <<>>
    /\ fetches = 0
    /\ idx = 1
    /\ groups = EmptyDict
    /\ origin = EmptyDict
    /\ results = EmptyDict
    /\ stdout = <<>>
    /\ exitcode = Running
    /\ addrIn = <<>>
    /\ addrOut = <<>>

\* is_list_argv without the test of len(sys.argv)
is_list_argv_any_length(a) == Len(a) >= 2 /\ a[2] = "--list"

is_list_argv(a) == Len(a) = 2 /\ a[2] = "--list"
is_host_argv(a) == Len(a) = 3 /\ a[2] = "--host"

\* an uncaught exception: traceback on stderr, nothing printed, status 1
Raise ==
    /\ pc' = "terminated"
    /\ exitcode' = <<1>>
    /\ UNCHANGED stdout

\* groups = {} and the call client.servers.list() of the --list branch
ListFetch ==
    /\ pc = "invoked"
    /\ is_list_argv(argv)
    /\ fetches' = fetches + 1
    /\ \/ /\ \E l \in ServerLists : servers' = l
          /\ pc' = "list_loop"
          /\ UNCHANGED <<stdout, exitcode>>
       \/ /\ UNCHANGED servers
          /\ Raise
    /\ UNCHANGED <<variant, argv, idx, groups, origin, results, addrIn, addrOut>>

\* ListStep printing what it has when a record raises
ListStep_partial_output ==
    /\ pc = "list_loop"
    /\ idx <= Len(servers)
    /\ IF has_network(servers[idx])
       THEN /\ groups' = list_step(variant, groups, servers[idx])
            /\ origin' = origin_track(origin, groups', idx)
            /\ idx' = idx + 1
            /\ UNCHANGED <<pc, stdout, exitcode>>
       ELSE /\ stdout' = Append(stdout, [json |-> groups])
            /\ pc' = "terminated"
            /\ exitcode' = <<1>>
            /\ UNCHANGED <<groups, origin, idx>>
    /\ UNCHANGED <<variant, argv, servers, fetches, results, addrIn, addrOut>>

\* one iteration of the for loop of the --list branch
ListStep ==
    /\ pc = "list_loop"
    /\ idx <= Len(servers)
    /\ IF has_network(servers[idx])
       THEN /\ groups' = list_step(variant, groups, servers[idx])
            /\ origin' = origin_track(origin, groups', idx)
            /\ idx' = idx + 1
            /\ UNCHANGED <<pc, stdout, exitcode>>
       ELSE /\ Raise
            /\ UNCHANGED <<groups, origin, idx>>
    /\ UNCHANGED <<variant, argv, servers, fetches, results, addrIn, addrOut>>

\* print(json.dumps(groups, indent=2))
ListPrint ==
    /\ pc = "list_loop"
    /\ idx > Len(servers)
    /\ stdout' = Append(stdout, [json |-> groups])
    /\ pc' = "rendered"
    /\ UNCHANGED <<variant, argv, servers, fetches, idx, groups, origin, results,
                   exitcode, addrIn, addrOut>>

\* results = {} and the call client.servers.list() of the --host branch
HostFetch ==
    /\ pc = "invoked"
    /\ ~is_list_argv(argv)
    /\ is_host_argv(argv)
    /\ fetches' = fetches + 1
    /\ \/ /\ \E l \in ServerLists : servers' = l
          /\ pc' = "host_loop"
          /\ UNCHANGED <<stdout, exitcode>>
       \/ /\ UNCHANGED servers
          /\ Raise
    /\ UNCHANGED <<variant, argv, idx, groups, origin, results, addrIn, addrOut>>

\* one iteration of the for loop of the --host branch
HostStep ==
    /\ pc = "host_loop"
    /\ idx <= Len(servers)
    /\ IF has_network(servers[idx])
       THEN /\ results' = host_step(variant, argv[3], results, servers[idx])
            /\ idx' = idx + 1
            /\ UNCHANGED <<pc, stdout, exitcode>>
       ELSE /\ Raise
            /\ UNCHANGED <<results, idx>>
    /\ UNCHANGED <<variant, argv, servers, fetches, groups, origin, addrIn, addrOut>>

\* print(json.dumps(results, indent=2))
HostPrint ==
    /\ pc = "host_loop"
    /\ idx > Len(servers)
    /\ stdout' = Append(stdout, [json |-> results])
    /\ pc' = "rendered"
    /\ UNCHANGED <<variant, argv, servers, fetches, idx, groups, origin, results,
                   exitcode, addrIn, addrOut>>

\* sys.exit(0) after the print of either branch
Exit ==
    /\ pc = "rendered"
    /\ pc' = "terminated"
    /\ exitcode' = <<0>>
    /\ UNCHANGED <<variant, argv, servers, fetches, idx, groups, origin, results,
                   stdout, addrIn, addrOut>>

\* the else branch: print the usage line, sys.exit(1)
UsageExit ==
    /\ pc = "invoked"
    /\ ~is_list_argv(argv)
    /\ ~is_host_argv(argv)
    /\ stdout' = Append(stdout, Usage)
    /\ pc' = "terminated"
    /\ exitcode' = <<1>>
    /\ UNCHANGED <<variant, argv, servers, fetches, idx, groups, origin, results,
                   addrIn, addrOut>>

Next ==
    \/ ListFetch
    \/ ListStep
    \/ ListPrint
    \/ HostFetch
    \/ HostStep
    \/ HostPrint
    \/ Exit
    \/ UsageExit

Spec == Init /\ [][Next]_vars

(***************************************************************************)
(* get_addresses on its own: every address list of up to MaxAddr entries.  *)
(***************************************************************************)
EntryPool ==
    {Entry(a, t @@ ver) :
        a \in {Addr1, Addr2},
        t \in {EmptyDict, Type("fixed"), Type("floating")},
        ver \in {EmptyDict, Version(4), Version(6)}}

InitAddr ==
    /\ variant = "nova"
    /\ argv = <<Script>>
    /\ pc = "call"
    /\ servers = <<>>
    /\ fetches = 0
    /\ idx = 1
    /\ groups = EmptyDict
    /\ origin = EmptyDict
    /\ results = EmptyDict
    /\ stdout = <<>>
    /\ exitcode = Running
    /\ addrIn \in SeqsUpTo(EntryPool, MaxAddr)
    /\ addrOut = <<>>

CallGetAddresses ==
    /\ pc = "call"
    /\ addrOut' = get_addresses(addrIn)
    /\ pc' = "returned"
    /\ UNCHANGED <<variant, argv, servers, fetches, idx, groups, origin, results,
                   stdout, exitcode, addrIn>>

NextAddr == CallGetAddresses

SpecAddr == InitAddr /\ [][NextAddr]_vars

(***************************************************************************)
(* The statements of the specification, written from its wording.          *)
(***************************************************************************)
\* the two valid invocation shapes: exactly --list, exactly --host <address>
ClaimIsList == Tail(argv) = <<"--list">>
ClaimIsHost == Len(argv) = 3 /\ Head(Tail(argv)) = "--host"
ClaimQuery == argv[3]

\* the group of a record: its metadata 'group' entry, else 'undefined'
ClaimGroup(s) ==
    IF \E k \in DOMAIN s.metadata : k = "group" THEN s.metadata.group ELSE "undefined"

\* an address entry is of category kind (fixed, floating or legacy)
ClaimIs(x, kind) ==
    IF kind = "legacy"
    THEN \E k \in DOMAIN x : k = "version" /\ x[k] = 4
    ELSE \E k \in DOMAIN x : k = "OS-EXT-IPS:type" /\ x[k] = kind

\* the positions of the entries of category kind
ClaimPositions(entries, kind) == {i \in 1..Len(entries) : ClaimIs(entries[i], kind)}

\* out is the subsequence of the 'addr' values of the entries of category kind
ClaimIsCategory(out, entries, kind) ==
    /\ Len(out) = Cardinality(ClaimPositions(entries, kind))
    /\ \A i \in ClaimPositions(entries, kind) :
          out[Cardinality({j \in ClaimPositions(entries, kind) : j <= i})] = entries[i].addr

\* the comma-joined addresses of category kind, "" when there is none
RECURSIVE ClaimJoined(_, _)
ClaimJoined(entries, kind) ==
    IF entries = <<>> THEN ""
    ELSE LET rest == ClaimJoined(Tail(entries), kind)
         IN IF ~ClaimIs(Head(entries), kind) THEN rest
            ELSE IF rest = "" THEN Head(entries).addr
            ELSE Head(entries).addr \o ", " \o rest

\* the candidate-address list of a record under the policy of its variant
ClaimCandidates(v, s) ==
    LET e == s.addresses[1].entries
    IN <<s.accessIPv4, ClaimJoined(e, "fixed"), ClaimJoined(e, "floating")>>
       \o (IF v = "nova" \/ s.accessIPv4 = "" THEN <<ClaimJoined(e, "legacy")>> ELSE <<>>)

\* the strings '<name>: <candidate>' of a record, one per non-empty candidate
ClaimServerEntries(v, s) ==
    LET c == ClaimCandidates(v, s)
        F[k \in 0..Len(c)] ==
            IF k = 0 THEN <<>>
            ELSE IF c[k] = "" THEN F[k - 1]
            ELSE Append(F[k - 1], s.name \o ": " \o c[k])
    IN F[Len(c)]

\* the sequence of group g after the first n records, in fetch order
RECURSIVE ClaimGroupEntries(_, _, _, _)
ClaimGroupEntries(v, srv, g, n) ==
    IF n = 0 THEN <<>>
    ELSE IF ClaimGroup(srv[n]) # g THEN ClaimGroupEntries(v, srv, g, n - 1)
    ELSE ClaimGroupEntries(v, srv, g, n - 1) \o ClaimServerEntries(v, srv[n])

\* the places <<group, position>> of the document whose entry came from record i
PlacesOf(i) ==
    {gk \in UNION {{<<g, k>> : k \in 1..Len(origin[g])} : g \in DOMAIN origin} :
        origin[gk[1]][gk[2]] = i}

C5_DiscoveryEntries ==
    ClaimIsList =>
        /\ DOMAIN groups = {ClaimGroup(servers[i]) : i \in 1..(idx - 1)}
        /\ \A g \in DOMAIN groups :
              groups[g] = ClaimGroupEntries(variant, servers, g, idx - 1)
        /\ pc = "rendered" =>
              /\ idx = Len(servers) + 1
              /\ stdout = <<[json |-> groups]>>
              /\ servers = <<>> => stdout = <<[json |-> EmptyDict]>>
        /\ (pc = "terminated" /\ exitcode = <<0>>) => stdout = <<[json |-> groups]>>

C5_Witness ==
    /\ ClaimIsList
    /\ pc = "rendered"
    /\ Len(servers) = 2
    /\ servers[1].name = "b" /\ servers[2].name = "a"
    /\ "web" \in DOMAIN groups
    /\ groups["web"] = <<"b: 10.0.0.2, 10.0.0.3", "b: 10.0.0.2",
                          "a: 10.0.0.1", "a: 10.0.0.1">>

\* C6: get_addresses returns (private, public, legacy): the 'addr' values of
\* the entries typed fixed, typed floating, and of version 4 whatever the
\* type, each in input order with repetitions kept; an entry without the
\* field is left out of the category, and a typed entry of version 4 is in
\* legacy as well as in private or public.
C6_GetAddresses ==
    pc = "returned" =>
        /\ Len(addrOut) = 3
        /\ ClaimIsCategory(addrOut[1], addrIn, "fixed")
        /\ ClaimIsCategory(addrOut[2], addrIn, "floating")
        /\ ClaimIsCategory(addrOut[3], addrIn, "legacy")
        /\ \A i \in 1..Len(addrIn) :
              (ClaimIs(addrIn[i], "legacy")
                  /\ (ClaimIs(addrIn[i], "fixed") \/ ClaimIs(addrIn[i], "floating")))
              => \E k \in 1..Len(addrOut[3]) : addrOut[3][k] = addrIn[i].addr

C6_Witness ==
    /\ pc = "returned"
    /\ Len(addrIn) = 3
    /\ DOMAIN addrIn[3] = {"addr"}
    /\ addrOut = <<<<Addr1, Addr1>>, <<>>, <<Addr1>>>>

Matches == {i \in 1..Len(servers) : ClaimQuery \in Range(host_ips(variant, servers[i]))}
FirstMatch == CHOOSE i \in Matches : \A j \in Matches : i <= j

\* '<prefix>_<lower-cased attribute name>', prefix os in nova.py, rax in rax.py
ClaimKey(v, attr) == (IF v = "nova" THEN "os" ELSE "rax") \o "_" \o lower(attr)

\* C1: detail mode is first-match-wins: when records match the query, every
\* key and value of the printed mapping comes from the first matching record
\* in fetch order, none from a later one. Stated for the non-empty queries.
C1_FirstMatchWins ==
    (ClaimIsHost /\ pc = "rendered" /\ ClaimQuery # "" /\ Matches # {}) =>
        \A k \in DOMAIN stdout[1].json :
            \E attr \in DOMAIN servers[FirstMatch] :
                /\ k = ClaimKey(variant, attr)
                /\ stdout[1].json[k] = servers[FirstMatch][attr]

\* the candidate list of C2: accessIPv4 and the joined private, public and
\* legacy lists, each only when non-empty
ClaimNonEmptyCandidates(s) ==
    LET e == s.addresses[1].entries
    IN {s.accessIPv4, ClaimJoined(e, "fixed"), ClaimJoined(e, "floating"),
        ClaimJoined(e, "legacy")} \ {""}

\* C2: detail mode with a query equal to no element of any record's
\* candidate list (its non-empty candidates) prints the empty mapping and
\* exits 0, whatever the query, the empty string included. Stated for the
\* server lists every record of which has a network.
C2_NoMatchEmpty ==
    (/\ ClaimIsHost
     /\ pc \in {"rendered", "terminated"}
     /\ stdout # <<>>
     /\ \A i \in 1..Len(servers) :
           /\ servers[i].addresses # <<>>
           /\ ClaimQuery \notin ClaimNonEmptyCandidates(servers[i]))
    => /\ stdout = <<[json |-> EmptyDict]>>
       /\ pc = "terminated" => exitcode = <<0>>

\* C3: when detail mode selects a record it emits, for every attribute of it
\* not named exactly 'manager', the key '<prefix>_<lower-cased name>' with
\* the attribute's value, and no key for 'manager'. Stated for the runs in
\* which exactly one record matches a non-empty query.
C3_AllButManager ==
    (ClaimIsHost /\ pc = "rendered" /\ ClaimQuery # "" /\ Cardinality(Matches) = 1) =>
        LET s == servers[FirstMatch]
            doc == stdout[1].json
        IN /\ \A attr \in DOMAIN s \ {"manager"} :
                 /\ ClaimKey(variant, attr) \in DOMAIN doc
                 /\ doc[ClaimKey(variant, attr)] = s[attr]
           /\ ClaimKey(variant, "manager") \notin DOMAIN doc

\* the position of a run in the order invoked, fetched, rendered, terminated
Rank(p) ==
    CASE p = "invoked" -> 0
      [] p \in {"list_loop", "host_loop"} -> 1
      [] p = "rendered" -> 2
      [] p = "terminated" -> 3

C8_State ==
    (ClaimIsList \/ ClaimIsHost) =>
        /\ fetches <= 1
        /\ pc # "invoked" => fetches = 1
        /\ Len(stdout) <= 1
        /\ stdout # <<>> =>
              /\ pc \in {"rendered", "terminated"}
              /\ idx = Len(servers) + 1
              /\ \A i \in 1..Len(servers) : servers[i].addresses # <<>>
              /\ stdout[1] = [json |-> IF ClaimIsList THEN groups ELSE results]
        /\ pc # "terminated" => exitcode = Running
        /\ pc = "terminated" =>
              \/ exitcode = <<0>> /\ stdout # <<>>
              \/ exitcode = <<1>> /\ stdout = <<>>

C8_Step ==
    (ClaimIsList \/ ClaimIsHost) =>
        /\ pc' # pc =>
              \/ Rank(pc') = Rank(pc) + 1
              \/ pc' = "terminated" /\ exitcode' = <<1>> /\ stdout' = <<>>
        /\ fetches' # fetches => (pc = "invoked" /\ fetches' = 1)
        /\ servers' # servers => pc = "invoked"
        /\ stdout' # stdout => (stdout = <<>> /\ pc # "rendered" /\ pc' = "rendered")
        /\ idx' >= idx

\* C8: in both valid modes a run goes invoked, fetched, rendered, terminated
\* with no retry: one fetch, before the one write of the document; a run
\* that fails in the fetch or on a record ends with nothing written, so the
\* output is the complete document or nothing.
C8_FetchRenderTerminate == []C8_State /\ [][C8_Step]_vars

C8_Witness ==
    /\ ClaimIsList
    /\ pc = "terminated"
    /\ exitcode = <<1>>
    /\ idx = 2
    /\ groups # EmptyDict
    /\ servers[2].addresses = <<>>
    /\ stdout = <<>>

\* C9: the legacy list is a candidate under one policy per variant, the same
\* in discovery and in detail mode: always the fourth candidate in nova.py,
\* a candidate only when accessIPv4 is empty in rax.py; so in rax.py a record
\* with a non-empty accessIPv4 gets no discovery entry from its legacy list
\* and is not matched through it in detail mode.
C9_LegacyPolicy ==
    /\ \A i \in 1..Len(servers) :
          servers[i].addresses # <<>> =>
              LET s == servers[i]
                  legacy == ClaimJoined(s.addresses[1].entries, "legacy")
                  withLegacy == variant = "nova" \/ s.accessIPv4 = ""
              IN /\ list_ips(variant, s) = host_ips(variant, s)
                 /\ Len(host_ips(variant, s)) = IF withLegacy THEN 4 ELSE 3
                 /\ withLegacy => host_ips(variant, s)[4] = legacy
    /\ (ClaimIsList /\ variant = "rax") =>
          \A i \in 1..(idx - 1) :
              servers[i].accessIPv4 # "" =>
                  LET e == servers[i].addresses[1].entries
                  IN Cardinality(PlacesOf(i)) =
                        1 + Cardinality({kind \in {"fixed", "floating"} :
                                            ClaimJoined(e, kind) # ""})
    /\ (ClaimIsHost /\ variant = "rax" /\ pc = "rendered") =>
          ((\A i \in 1..Len(servers) :
                LET s == servers[i]
                    e == s.addresses[1].entries
                IN /\ s.accessIPv4 # ""
                   /\ ClaimQuery \notin {s.accessIPv4, ClaimJoined(e, "fixed"),
                                         ClaimJoined(e, "floating")})
           => stdout = <<[json |-> EmptyDict]>>)
    /\ (ClaimIsHost /\ variant = "nova" /\ pc = "rendered") =>
          ((\E i \in 1..Len(servers) :
                ClaimQuery = ClaimJoined(servers[i].addresses[1].entries, "legacy"))
           => stdout # <<[json |-> EmptyDict]>>)

C9_Witness ==
    /\ ClaimIsHost
    /\ variant = "rax"
    /\ pc = "rendered"
    /\ ClaimQuery = Addr2
    /\ \E i \in 1..Len(servers) :
          /\ servers[i].accessIPv4 # ""
          /\ ClaimJoined(servers[i].addresses[1].entries, "legacy") = Addr2
    /\ stdout = <<[json |-> EmptyDict]>>

\* C10: over one unchanged server list, every entry '<name>: <address>' that
\* discovery mode emits for a record names an address with which detail mode
\* selects a record whose candidate list holds it (a non-empty result); and
\* every non-empty query with which detail mode selects a record is the
\* address of a discovery entry.
C10_RoundTrip ==
    /\ (ClaimIsList /\ pc = "rendered") =>
          \A g \in DOMAIN groups : \A k \in 1..Len(groups[g]) :
              LET s == servers[origin[g][k]]
              IN \E c \in Range(ClaimCandidates(variant, s)) \ {""} :
                    /\ stdout[1].json[g][k] = s.name \o ": " \o c
                    /\ host_run(variant, c, servers, Len(servers)) # EmptyDict
                    /\ \E j \in 1..Len(servers) :
                          c \in Range(ClaimCandidates(variant, servers[j]))
    /\ (ClaimIsHost /\ pc = "rendered" /\ ClaimQuery # ""
            /\ stdout # <<[json |-> EmptyDict]>>) =>
          \E i \in 1..Len(servers) :
              LET doc == list_run(variant, servers, Len(servers))
              IN \E k \in 1..Len(doc[ClaimGroup(servers[i])]) :
                    doc[ClaimGroup(servers[i])][k] = servers[i].name \o ": " \o ClaimQuery

C10_Witness ==
    /\ ClaimIsHost
    /\ variant = "rax"
    /\ pc = "rendered"
    /\ ClaimQuery = "10.0.0.2, 10.0.0.3"
    /\ Len(servers) = 2
    /\ stdout # <<[json |-> EmptyDict]>>
    /\ stdout[1].json["rax_name"] = "b"

====
